---- MODULE Spec2Model ----
(***************************************************************************)
(* writer_cm (src/src/writer_cm/writer_cm.py): a context manager that      *)
(* provisions the ancestor directories of a destination, creates a private *)
(* temporary directory inside the destination's parent, yields a path      *)
(* inside it, and on normal exit of the caller's block moves (or replaces) *)
(* the staged file onto the destination and sets its properties.           *)
(*                                                                         *)
(* The model is a POSIX filesystem seen by an unprivileged process "me":   *)
(* the chain of ancestor directories of the destination (level 0 is the    *)
(* root, level MaxDepth is destination.parent), the destination itself,    *)
(* and per invocation its temporary directory and the staged file.  Every  *)
(* system call of writer_cm is one step, so invocations interleave at the  *)
(* granularity of system calls.                                            *)
(***************************************************************************)
EXTENDS Integers, Sequences, FiniteSets, TLC

\* ---------------------------------------------------------------- bounds
\* Number of ancestor levels below the root: parent.parts has MaxDepth + 1
\* entries, level MaxDepth is destination.parent.
MaxDepth == 3
\* Longest content (in chunks) a caller writes to the staged file.
MaxLen == 2

\* ------------------------------------------------------- stat constants
S_IRUSR == 256
S_IWUSR == 128
S_IXUSR == 64
S_IRGRP == 32
S_IXGRP == 8

\* The two invocations that may run side by side.
Procs == {1, 2}
Levels == 0 .. MaxDepth
\* The names mkdtemp can draw for a temporary directory: as many as there
\* are invocations, so a free one is always found.
TempNames == {"tmp1", "tmp2"}
NoTemp == "none"

\* The process runs as user Me (not root); Other is another account.
Me == "me"
Other == "other"
OwnGroup == "grp"
\* Accounts the user database knows (shutil._get_uid / _get_gid succeed).
KnownUsers == {Me, Other}
KnownGroups == {Me, Other, OwnGroup}
\* Groups the process is a member of.
MyGroups == {Me, OwnGroup}
None == "None"

\* The content of files that exist beforehand and of the file another actor
\* creates; invocation p writes chunks of value p, so contents tell writers
\* apart and a prefix apart from the whole.
OldContent == <<0>>
ExtContent == <<3>>

RECURSIVE BitAnd(_, _)
BitAnd(a, b) ==
    IF a = 0 \/ b = 0 THEN 0
    ELSE (a % 2) * (b % 2) + 2 * BitAnd(a \div 2, b \div 2)

HasBits(mode, mask) == BitAnd(mode, mask) = mask

\* A mode masked by the process umask, as open(2) and mkdir(2) do.
Masked(mode, um) == mode - BitAnd(mode, um)

\* ------------------------------------------------------ filesystem objects
Absent == [kind |-> "absent", content |-> <<>>, owner |-> "-", group |-> "-", mode |-> 0]
Dir(o, g, m) == [kind |-> "dir", content |-> <<>>, owner |-> o, group |-> g, mode |-> m]
File(c, o, g, m) == [kind |-> "file", content |-> c, owner |-> o, group |-> g, mode |-> m]

\* ------------------------------------------------------------------ errors
NoErr == [type |-> "none", paths |-> {}]
Err(t, ps) == [type |-> t, paths |-> ps]

\* Permission checks of an unprivileged process owning nothing of Other's:
\* the owner class for its own objects, the other class otherwise.
CanSearch(d) ==
    IF d.owner = Me THEN HasBits(d.mode, S_IXUSR) ELSE HasBits(d.mode, 1)
CanWrite(d) ==
    IF d.owner = Me THEN HasBits(d.mode, S_IWUSR + S_IXUSR) ELSE HasBits(d.mode, 3)

\* Path resolution through levels j..i of the ancestor chain fs, each of
\* which must be a directory the process may search: the errno class of the
\* first component that fails, or "none".
RECURSIVE WalkErr(_, _, _)
WalkErr(fs, j, i) ==
    IF j > i THEN "none"
    ELSE IF fs[j].kind = "absent" THEN "FileNotFoundError"
    ELSE IF fs[j].kind = "file" THEN "NotADirectoryError"
    ELSE IF ~CanSearch(fs[j]) THEN "PermissionError"
    ELSE WalkErr(fs, j + 1, i)

\* os.mkdir of the ancestor at level i (default mode 0o777, masked).
MkdirErr(fs, i) ==
    IF i = 0 THEN "FileExistsError"
    ELSE IF WalkErr(fs, 0, i - 1) # "none" THEN WalkErr(fs, 0, i - 1)
    ELSE IF fs[i].kind # "absent" THEN "FileExistsError"
    ELSE IF ~CanWrite(fs[i - 1]) THEN "PermissionError"
    ELSE "none"

\* The exception classes the provisioning loop suppresses.
Suppressed == {"FileExistsError", "IsADirectoryError", "PermissionError"}

\* os.chmod of obj, reached through a path whose resolution gives walk.
ChmodErr(obj, walk) ==
    IF walk # "none" THEN walk
    ELSE IF obj.kind = "absent" THEN "FileNotFoundError"
    ELSE IF obj.owner # Me THEN "PermissionError"
    ELSE "none"

\* shutil.chown: the names are looked up first, then os.chown.
ChownErr(obj, walk, user, group) ==
    IF user # None /\ user \notin KnownUsers THEN "LookupError"
    ELSE IF group # None /\ group \notin KnownGroups THEN "LookupError"
    ELSE IF walk # "none" THEN walk
    ELSE IF obj.kind = "absent" THEN "FileNotFoundError"
    ELSE IF obj.owner # Me THEN "PermissionError"
    ELSE IF user # None /\ user # Me THEN "PermissionError"
    ELSE IF group # None /\ group \notin MyGroups THEN "PermissionError"
    ELSE "none"

\* _set_properties(path, permissions, user, group): chmod, then chown when a
\* user or a group is given.  The result holds the object afterwards, the
\* exception raised (if any) and the call that raised it.
SetPropertiesBothGiven(obj, walk, permissions, user, group) ==
    LET ce == ChmodErr(obj, walk)
        o1 == [obj EXCEPT !.mode = permissions]
        oe == ChownErr(o1, walk, user, group)
    IN  IF ce # "none" THEN [obj |-> obj, err |-> ce, op |-> "chmod"]
        ELSE IF user = None \/ group = None
        THEN [obj |-> o1, err |-> "none", op |-> "none"]
        ELSE IF oe # "none" THEN [obj |-> o1, err |-> oe, op |-> "chown"]
        ELSE [obj |-> [o1 EXCEPT !.owner = user, !.group = group],
              err |-> "none", op |-> "none"]

SetPropertiesNoChmod(obj, walk, permissions, user, group) ==
    LET ce == ChmodErr(obj, walk)
        oe == ChownErr(obj, walk, user, group)
    IN  IF ce # "none" THEN [obj |-> obj, err |-> ce, op |-> "chmod"]
        ELSE IF user = None /\ group = None
        THEN [obj |-> obj, err |-> "none", op |-> "none"]
        ELSE IF oe # "none" THEN [obj |-> obj, err |-> oe, op |-> "chown"]
        ELSE [obj |-> [obj EXCEPT !.owner = IF user = None THEN @ ELSE user,
                                  !.group = IF group = None THEN @ ELSE group],
              err |-> "none", op |-> "none"]

SetProperties(obj, walk, permissions, user, group) ==
    LET ce == ChmodErr(obj, walk)
        o1 == [obj EXCEPT !.mode = permissions]
        oe == ChownErr(o1, walk, user, group)
    IN  IF ce # "none" THEN [obj |-> obj, err |-> ce, op |-> "chmod"]
        ELSE IF user = None /\ group = None
        THEN [obj |-> o1, err |-> "none", op |-> "none"]
        ELSE IF oe # "none" THEN [obj |-> o1, err |-> oe, op |-> "chown"]
        ELSE [obj |-> [o1 EXCEPT !.owner = IF user = None THEN @ ELSE user,
                                 !.group = IF group = None THEN @ ELSE group],
              err |-> "none", op |-> "none"]

\* atomicwrites.replace_atomic(src, dst): os.rename.  walk is the resolution
\* of destination.parent, parent that directory.
ReplaceAtomicKeepOld(src, dst, walk, parent) ==
    IF src.kind = "absent"
    THEN [src |-> src, dst |-> dst, err |-> Err("FileNotFoundError", {"source", "destination"})]
    ELSE IF dst.kind # "absent"
    THEN [src |-> Absent, dst |-> dst, err |-> NoErr]
    ELSE [src |-> Absent, dst |-> src, err |-> NoErr]

ReplaceAtomicUnlinkFirst(src, dst, walk, parent) ==
    IF walk # "none"
    THEN [src |-> src, dst |-> dst, err |-> Err(walk, {"source", "destination"})]
    ELSE IF ~CanWrite(parent)
    THEN [src |-> src, dst |-> dst, err |-> Err("PermissionError", {"source", "destination"})]
    ELSE IF src.kind = "absent"
    THEN [src |-> src, dst |-> Absent, err |-> Err("FileNotFoundError", {"source", "destination"})]
    ELSE [src |-> Absent, dst |-> src, err |-> NoErr]

ReplaceAtomicTorn(src, dst, walk, parent) ==
    IF src.kind = "absent"
    THEN [src |-> src, dst |-> dst, err |-> Err("FileNotFoundError", {"source", "destination"})]
    ELSE [src |-> Absent, err |-> NoErr,
          dst |-> [src EXCEPT !.content = SubSeq(@, 1, Len(@) - 1)]]

ReplaceAtomic(src, dst, walk, parent) ==
    IF walk # "none"
    THEN [src |-> src, dst |-> dst, err |-> Err(walk, {"source", "destination"})]
    ELSE IF src.kind = "absent"
    THEN [src |-> src, dst |-> dst, err |-> Err("FileNotFoundError", {"source", "destination"})]
    ELSE IF ~CanWrite(parent)
    THEN [src |-> src, dst |-> dst, err |-> Err("PermissionError", {"source", "destination"})]
    ELSE [src |-> Absent, dst |-> src, err |-> NoErr]

\* atomicwrites.move_atomic(src, dst): os.link(src, dst), which fails when
\* dst exists, then os.unlink(src).
MoveAtomicClobber(src, dst, walk, parent) == ReplaceAtomic(src, dst, walk, parent)

MoveAtomic(src, dst, walk, parent) ==
    IF walk # "none"
    THEN [src |-> src, dst |-> dst, err |-> Err(walk, {"source", "destination"})]
    ELSE IF src.kind = "absent"
    THEN [src |-> src, dst |-> dst, err |-> Err("FileNotFoundError", {"source", "destination"})]
    ELSE IF dst.kind # "absent"
    THEN [src |-> src, dst |-> dst, err |-> Err("FileExistsError", {"source", "destination"})]
    ELSE IF ~CanWrite(parent)
    THEN [src |-> src, dst |-> dst, err |-> Err("PermissionError", {"source", "destination"})]
    ELSE [src |-> Absent, dst |-> src, err |-> NoErr]

\* ------------------------------------------------------------ configuration
DefaultDirPerms == S_IRUSR + S_IWUSR + S_IXUSR + S_IRGRP + S_IXGRP
DefaultFilePerms == S_IRUSR + S_IWUSR

DirPermChoices == {DefaultDirPerms, S_IRUSR + S_IXUSR}
FilePermChoices == {DefaultFilePerms, S_IRUSR}
UserChoices == {None, Me, Other, "ghost"}
GroupChoices == {None, OwnGroup}

\* The keyword arguments of writer_cm.
Configs ==
    [overwrite : BOOLEAN, dir_perms : DirPermChoices, file_perms : FilePermChoices,
     user : UserChoices, group : GroupChoices]

DefaultConfig ==
    [overwrite |-> FALSE, dir_perms |-> DefaultDirPerms,
     file_perms |-> DefaultFilePerms, user |-> None, group |-> None]

\* The configurations used when two invocations run side by side: the
\* defaults, overwrite, and overwrite with other file permissions.
RaceConfigs ==
    {c \in Configs : /\ c.dir_perms = DefaultDirPerms
                     /\ c.user = None /\ c.group = None
                     /\ (c.overwrite \/ c.file_perms = DefaultFilePerms)}

\* Exceptions the caller's block may raise.
CallerErrors == {"KeyError", "PermissionError"}

Umasks == {18, 63}

\* ------------------------------------------------------------------- state
VARIABLES
    anc,        \* the ancestor chain: level -> directory entry
    dest,       \* the entry at the destination path
    umask,      \* the umask of the process
    pc,         \* per invocation: the call it is about to make
    cfg,        \* per invocation: its keyword arguments
    idx,        \* per invocation: the loop index of the provisioning loop
    temp,       \* per invocation: the name of its temporary directory, or NoTemp
    staged,     \* per invocation: the entry at temp_dir/name
    err,        \* per invocation: the exception propagating out of it
    exit,       \* per invocation: "normal", or the exception its block raised
    written,    \* per invocation: the staged entry when the block ended
    published,  \* per invocation: its rename onto the destination succeeded
    swallowed,  \* per invocation: the calls whose exception was suppressed
    anc0,       \* the ancestor chain before any invocation
    dest0,      \* the destination before any invocation
    extDone     \* another actor has created the destination

vars == <<anc, dest, umask, pc, cfg, idx, temp, staged, err, exit, written,
          published, swallowed, anc0, dest0, extDone>>

fsVars == <<anc, dest>>
ghostVars == <<anc0, dest0, umask>>
otherVars == <<extDone>>

Parent == anc[MaxDepth]

\* Ancestor chains that can exist: below the root (owned by root, 0o755)
\* a run of directories, then possibly a regular file, then nothing.
PreDirs == {Dir(Me, Me, 448), Dir(Other, Other, 493)}

WellFormed(fs) ==
    /\ fs[0] = Dir(Other, Other, 493)
    /\ \A i \in 1 .. MaxDepth :
         fs[i].kind # "absent" => fs[i - 1].kind = "dir"

InitFs ==
    /\ anc \in [Levels -> PreDirs \cup {Absent, File(OldContent, Me, Me, 420)}]
    /\ WellFormed(anc)
    /\ dest \in {Absent, File(OldContent, Me, Me, 420), File(OldContent, Other, Other, 420)}
    /\ dest.kind # "absent" => Parent.kind = "dir"

InitRest ==
    /\ pc = [p \in Procs |-> "idle"]
    /\ cfg = [p \in Procs |-> DefaultConfig]
    /\ idx = [p \in Procs |-> 0]
    /\ temp = [p \in Procs |-> NoTemp]
    /\ staged = [p \in Procs |-> Absent]
    /\ err = [p \in Procs |-> NoErr]
    /\ exit = [p \in Procs |-> "none"]
    /\ written = [p \in Procs |-> Absent]
    /\ published = [p \in Procs |-> FALSE]
    /\ swallowed = [p \in Procs |-> {}]
    /\ anc0 = anc
    /\ dest0 = dest
    /\ extDone = FALSE

Init ==
    /\ InitFs
    /\ umask \in Umasks
    /\ InitRest

\* ----------------------------------------------------------------- actions
\* writer_cm is called: destination, parent and parts are computed.
Call(p, configs) ==
    /\ pc[p] = "idle"
    /\ \E c \in configs : cfg' = [cfg EXCEPT ![p] = c]
    /\ pc' = [pc EXCEPT ![p] = "mkdir"]
    /\ idx' = [idx EXCEPT ![p] = 0]
    /\ UNCHANGED <<fsVars, ghostVars, otherVars, temp, staged, err, exit,
                   written, published, swallowed>>

\* Where the provisioning loop goes after the body for level i.
AfterLevel(i) == IF i = MaxDepth THEN "mktemp" ELSE "mkdir"
NextIdx(i) == IF i = MaxDepth THEN i ELSE i + 1

\* The with-suppress block around one loop body: the exceptions it catches.
Suppresses(e) == e \in Suppressed

\* Where the loop continues when mkdir for level i raised a suppressed
\* exception: the rest of the block (_set_properties) is skipped.
OnSuppressedSetsProps(i) == [pc |-> "setprops", idx |-> i]
OnSuppressed(i) == [pc |-> AfterLevel(i), idx |-> NextIdx(i)]

\* path_parent.mkdir() for level idx[p].
ProvisionMkdir(p) ==
    /\ pc[p] = "mkdir"
    /\ LET i == idx[p]
           e == MkdirErr(anc, i)
       IN  IF e = "none"
           THEN /\ anc' = [anc EXCEPT ![i] = Dir(Me, Me, Masked(511, umask))]
                /\ pc' = [pc EXCEPT ![p] = "setprops"]
                /\ UNCHANGED <<idx, err, swallowed>>
           ELSE IF Suppresses(e)
           THEN /\ swallowed' = [swallowed EXCEPT ![p] = @ \cup {"mkdir"}]
                /\ pc' = [pc EXCEPT ![p] = OnSuppressed(i).pc]
                /\ idx' = [idx EXCEPT ![p] = OnSuppressed(i).idx]
                /\ UNCHANGED <<anc, err>>
           ELSE /\ err' = [err EXCEPT ![p] = Err(e, {"ancestor"})]
                /\ pc' = [pc EXCEPT ![p] = "done"]
                /\ UNCHANGED <<anc, idx, swallowed>>
    /\ UNCHANGED <<dest, ghostVars, otherVars, cfg, temp, staged, exit,
                   written, published>>

\* _set_properties(path_parent, dir_perms, user, group) for the directory
\* just created, inside the same with-suppress block.
ProvisionSetProps(p) ==
    /\ pc[p] = "setprops"
    /\ LET i == idx[p]
           r == SetProperties(anc[i], WalkErr(anc, 0, i - 1), cfg[p].dir_perms,
                              cfg[p].user, cfg[p].group)
       IN  /\ anc' = [anc EXCEPT ![i] = r.obj]
           /\ IF r.err = "none"
              THEN /\ pc' = [pc EXCEPT ![p] = AfterLevel(i)]
                   /\ idx' = [idx EXCEPT ![p] = NextIdx(i)]
                   /\ UNCHANGED <<err, swallowed>>
              ELSE IF Suppresses(r.err)
              THEN /\ swallowed' = [swallowed EXCEPT ![p] = @ \cup {r.op}]
                   /\ pc' = [pc EXCEPT ![p] = AfterLevel(i)]
                   /\ idx' = [idx EXCEPT ![p] = NextIdx(i)]
                   /\ UNCHANGED err
              ELSE /\ err' = [err EXCEPT ![p] = Err(r.err, {"ancestor"})]
                   /\ pc' = [pc EXCEPT ![p] = "done"]
                   /\ UNCHANGED <<idx, swallowed>>
    /\ UNCHANGED <<dest, ghostVars, otherVars, cfg, temp, staged, exit,
                   written, published>>

\* Names of temporary directories present in destination.parent.
UsedTempsNone == {}
UsedTemps == {temp[q] : q \in Procs} \ {NoTemp}

\* Where writer_cm continues when TemporaryDirectory(...) raises: the
\* exception leaves the generator before the yield.
AfterTempFailureYields == "scope"
AfterTempFailure == "done"

\* TemporaryDirectory(suffix=".tmp", prefix=name, dir=parent).__enter__:
\* mkdtemp draws names until one is free and creates the directory 0o700.
MkTemp(p) ==
    /\ pc[p] = "mktemp"
    /\ LET w == WalkErr(anc, 0, MaxDepth)
           e == IF w # "none" THEN w
                ELSE IF ~CanWrite(Parent) THEN "PermissionError" ELSE "none"
       IN  IF e = "none"
           THEN /\ \E n \in TempNames \ UsedTemps : temp' = [temp EXCEPT ![p] = n]
                /\ pc' = [pc EXCEPT ![p] = "scope"]
                /\ UNCHANGED err
           ELSE /\ err' = [err EXCEPT ![p] = Err(e, {"parent"})]
                /\ pc' = [pc EXCEPT ![p] = AfterTempFailure]
                /\ UNCHANGED temp
    /\ UNCHANGED <<fsVars, ghostVars, otherVars, cfg, idx, staged, exit,
                   written, published, swallowed>>

\* Inside the caller's block (the yield): the caller opens the yielded path
\* for writing, which creates or truncates the staged file ...
CallerOpen(p) ==
    /\ pc[p] = "scope"
    /\ staged[p].kind = "absent"
    /\ staged' = [staged EXCEPT ![p] = File(<<>>, Me, Me, Masked(438, umask))]
    /\ UNCHANGED <<fsVars, ghostVars, otherVars, pc, cfg, idx, temp, err, exit,
                   written, published, swallowed>>

\* ... and writes to it chunk by chunk.
CallerWrite(p) ==
    /\ pc[p] = "scope"
    /\ staged[p].kind = "file"
    /\ Len(staged[p].content) < MaxLen
    /\ staged' = [staged EXCEPT ![p].content = Append(@, p)]
    /\ UNCHANGED <<fsVars, ghostVars, otherVars, pc, cfg, idx, temp, err, exit,
                   written, published, swallowed>>

\* The caller's block ends normally: the generator resumes after the yield.
ScopeExit(p) ==
    /\ pc[p] = "scope"
    /\ exit' = [exit EXCEPT ![p] = "normal"]
    /\ written' = [written EXCEPT ![p] = staged[p]]
    /\ pc' = [pc EXCEPT ![p] = "publish"]
    /\ UNCHANGED <<fsVars, ghostVars, otherVars, cfg, idx, temp, staged, err,
                   published, swallowed>>

\* Where the generator continues when the caller's block raised: the
\* exception is thrown in at the yield and unwinds through the with block.
AfterRaisePublishes == "publish"
AfterRaiseLeaks == "done"
AfterRaise == "cleanup"

\* The caller's block raises e.
ScopeRaise(p) ==
    /\ pc[p] = "scope"
    /\ \E e \in CallerErrors : err' = [err EXCEPT ![p] = Err(e, {"caller"})]
    /\ exit' = [exit EXCEPT ![p] = err'[p].type]
    /\ written' = [written EXCEPT ![p] = staged[p]]
    /\ pc' = [pc EXCEPT ![p] = AfterRaise]
    /\ UNCHANGED <<fsVars, ghostVars, otherVars, cfg, idx, temp, staged,
                   published, swallowed>>

\* The rename of the staged file onto the destination.
PublishSwapped(src, dst, overwrite, walk, parent) ==
    IF overwrite THEN MoveAtomic(src, dst, walk, parent)
    ELSE ReplaceAtomic(src, dst, walk, parent)

PublishResult(src, dst, overwrite, walk, parent) ==
    IF overwrite THEN ReplaceAtomic(src, dst, walk, parent)
    ELSE MoveAtomic(src, dst, walk, parent)

\* Where the generator continues when a call after the yield raised.
AfterFailureLeaks == "done"
AfterFailure == "cleanup"

Publish(p) ==
    /\ pc[p] = "publish"
    /\ LET r == PublishResult(staged[p], dest, cfg[p].overwrite,
                              WalkErr(anc, 0, MaxDepth), Parent)
       IN  /\ dest' = r.dst
           /\ staged' = [staged EXCEPT ![p] = r.src]
           /\ IF r.err = NoErr
              THEN /\ published' = [published EXCEPT ![p] = TRUE]
                   /\ pc' = [pc EXCEPT ![p] = "destprops"]
                   /\ UNCHANGED err
              ELSE /\ err' = [err EXCEPT ![p] = r.err]
                   /\ pc' = [pc EXCEPT ![p] = AfterFailure]
                   /\ UNCHANGED published
    /\ UNCHANGED <<anc, ghostVars, otherVars, cfg, idx, temp, exit, written,
                   swallowed>>

\* _set_properties(destination, file_perms, user, group).
DestSetProps(p) ==
    /\ pc[p] = "destprops"
    /\ LET r == SetProperties(dest, WalkErr(anc, 0, MaxDepth), cfg[p].file_perms,
                              cfg[p].user, cfg[p].group)
       IN  /\ dest' = r.obj
           /\ IF r.err = "none"
              THEN UNCHANGED err
              ELSE err' = [err EXCEPT ![p] = Err(r.err, {"destination"})]
           /\ pc' = [pc EXCEPT ![p] = IF r.err = "none" THEN "cleanup" ELSE AfterFailure]
    /\ UNCHANGED <<anc, ghostVars, otherVars, cfg, idx, temp, staged, exit,
                   written, published, swallowed>>

\* TemporaryDirectory.__exit__: rmtree of the temporary directory.  The
\* temporary directory is the process's own (mode 0o700), so once it can be
\* reached its entries are unlinked; its own rmdir needs write permission
\* on destination.parent.  When that is denied the directory stays, empty,
\* and tempfile's error handler (CPython 3.11) retries the rmtree until
\* RecursionError leaves.  When the temporary directory cannot be reached
\* nothing is removed: below an ancestor that cannot be searched the
\* handler's chmod raises PermissionError, below a regular file
\* NotADirectoryError is re-raised, and below a missing ancestor the handler
\* ignores the FileNotFoundError, so __exit__ raises nothing and whatever
\* was pending leaves.
Cleanup(p) ==
    /\ pc[p] = "cleanup"
    /\ IF WalkErr(anc, 0, MaxDepth) = "none" /\ CanWrite(Parent)
       THEN /\ temp' = [temp EXCEPT ![p] = NoTemp]
            /\ staged' = [staged EXCEPT ![p] = Absent]
            /\ UNCHANGED err
       ELSE IF WalkErr(anc, 0, MaxDepth) = "none"
       THEN /\ staged' = [staged EXCEPT ![p] = Absent]
            /\ err' = [err EXCEPT ![p] = Err("RecursionError", {"staging"})]
            /\ UNCHANGED temp
       ELSE IF WalkErr(anc, 0, MaxDepth) = "FileNotFoundError"
       THEN UNCHANGED <<temp, staged, err>>
       ELSE /\ err' = [err EXCEPT ![p] =
                         Err(WalkErr(anc, 0, MaxDepth), {"staging"})]
            /\ UNCHANGED <<temp, staged>>
    /\ pc' = [pc EXCEPT ![p] = "done"]
    /\ UNCHANGED <<fsVars, ghostVars, otherVars, cfg, idx, exit, written,
                   published, swallowed>>

\* Another actor creates the destination while invocations run.
ExtCreate ==
    /\ ~extDone
    /\ \E p \in Procs : pc[p] \notin {"idle", "done"}
    /\ dest.kind = "absent"
    /\ Parent.kind = "dir"
    /\ dest' = File(ExtContent, Other, Other, 420)
    /\ extDone' = TRUE
    /\ UNCHANGED <<anc, ghostVars, pc, cfg, idx, temp, staged, err, exit,
                   written, published, swallowed>>

Step(p, configs) ==
    \/ Call(p, configs)
    \/ ProvisionMkdir(p)
    \/ ProvisionSetProps(p)
    \/ MkTemp(p)
    \/ CallerOpen(p)
    \/ CallerWrite(p)
    \/ ScopeExit(p)
    \/ ScopeRaise(p)
    \/ Publish(p)
    \/ DestSetProps(p)
    \/ Cleanup(p)

\* One invocation on an otherwise quiet filesystem.
Next == Step(1, Configs)

Spec == Init /\ [][Next]_vars

\* Two invocations for the same destination and another actor.
InitRace ==
    /\ InitFs
    /\ \A i \in Levels : anc[i].owner # Other \/ i = 0
    /\ \A i \in Levels : anc[i].kind # "file"
    /\ anc[1].kind = "dir"
    /\ dest.owner # Other
    /\ umask = 18
    /\ InitRest

NextRace ==
    \/ \E p \in Procs : Step(p, RaceConfigs)
    \/ ExtCreate

SpecRace == InitRace /\ [][NextRace]_vars

\* ------------------------------------------------------------------ claims
\* The invocation has returned (or raised) to its caller.
Ended(p) == pc[p] = "done"
\* The caller's block of p ended normally with the staged file written.
WroteAndLeft(p) == exit[p] = "normal" /\ written[p].kind = "file"

\* C1: round trip.  When the caller's block ends normally having written the
\* staged file, and the destination was absent or overwrite is set, then once
\* writer_cm has returned the destination is a file holding exactly the
\* content the caller wrote.
C1_RoundTrip ==
    (Ended(1) /\ WroteAndLeft(1) /\ (dest0.kind = "absent" \/ cfg[1].overwrite))
        => (dest.kind = "file" /\ dest.content = written[1].content)

C1_Witness ==
    /\ Ended(1) /\ WroteAndLeft(1) /\ dest0.kind = "absent"
    /\ Len(written[1].content) >= 2
    /\ dest.content = written[1].content

\* C2: when the caller's block raises, nothing is published: after the
\* invocation has ended the destination is the entry it was before (same
\* existence, content, mode and owner), the temporary directory is gone and
\* the exception that leaves writer_cm is the one the caller raised.
C2_RaiseSkipsPublish ==
    (Ended(1) /\ exit[1] \in CallerErrors)
        => /\ dest = dest0
           /\ ~published[1]
           /\ temp[1] = NoTemp /\ staged[1] = Absent
           /\ err[1] = Err(exit[1], {"caller"})

C2_Witness ==
    /\ Ended(1) /\ exit[1] = "KeyError" /\ written[1].kind = "file"
    /\ Len(written[1].content) >= 1
    /\ cfg[1].overwrite /\ dest0.kind = "file" /\ dest = dest0

\* C3: no-overwrite collision.  With the destination present beforehand and
\* overwrite false, the destination entry never changes (content, mode,
\* owner) and the invocation ends with an exception; when the caller's block
\* ended normally with the staged file written, that exception is
\* FileExistsError and names the destination path.
C3_NoOverwriteCollision ==
    (pc[1] # "idle" /\ dest0.kind = "file" /\ ~cfg[1].overwrite)
        => /\ dest = dest0
           /\ ~published[1]
           /\ Ended(1) => err[1] # NoErr
           /\ (Ended(1) /\ WroteAndLeft(1))
                => (err[1].type = "FileExistsError" /\ "destination" \in err[1].paths)

C3_Witness ==
    /\ Ended(1) /\ WroteAndLeft(1) /\ dest0.kind = "file" /\ ~cfg[1].overwrite
    /\ err[1].type = "FileExistsError" /\ dest.content = OldContent

\* C4: overwrite.  With overwrite set, a block that ends normally with the
\* staged file written is published whether or not the destination existed:
\* the destination then holds the new content only, and no FileExistsError
\* is raised.
C4_Overwrite ==
    (cfg[1].overwrite /\ WroteAndLeft(1) /\ pc[1] \in {"destprops", "cleanup", "done"})
        => /\ published[1]
           /\ dest.kind = "file"
           /\ dest.content = written[1].content
           /\ err[1].type # "FileExistsError"

C4_Witness ==
    /\ Ended(1) /\ cfg[1].overwrite /\ WroteAndLeft(1)
    /\ dest0.kind = "file" /\ dest0.content = OldContent
    /\ dest.content = written[1].content /\ dest.content # OldContent
    /\ err[1] = NoErr

\* C5: no leftover staging state.  Once an invocation has ended, on whatever
\* path, its temporary directory and the staged file no longer exist.
C5_NoLeftover ==
    Ended(1) => (temp[1] = NoTemp /\ staged[1] = Absent)

\* A failed publish after a block that wrote the staged file: the file was
\* still in the temporary directory when cleanup ran.
C5_Witness ==
    /\ Ended(1) /\ WroteAndLeft(1) /\ err[1].type = "FileExistsError"
    /\ temp[1] = NoTemp /\ staged[1] = Absent

\* C6: no partial file at the destination.  In every state of every
\* interleaving of two invocations and another actor, the destination is
\* absent, or holds the content it had beforehand, or the content the other
\* actor created it with, or the whole content an invocation had written
\* when its block ended normally.
C6_NeverPartial ==
    dest.kind = "file" =>
        \/ (dest0.kind = "file" /\ dest.content = dest0.content)
        \/ (extDone /\ dest.content = ExtContent)
        \/ \E p \in Procs :
             published[p] /\ WroteAndLeft(p) /\ dest.content = written[p].content

\* Invocation 1 has published its whole content while invocation 2 is in the
\* middle of writing its staged file.
C6_Witness ==
    /\ published[1] /\ dest.content = written[1].content
    /\ Len(dest.content) = MaxLen
    /\ pc[2] = "scope" /\ staged[2].kind = "file"
    /\ Len(staged[2].content) = 1

\* C7: with overwrite false for every invocation, the existence check is the
\* rename's own: at most one of the invocations, the other actor and a
\* pre-existing file supplies the destination; an invocation that published
\* sees its whole content stay there; and an invocation whose block wrote
\* the staged file but which did not publish ended with FileExistsError
\* naming the destination.
C7_OneWinner ==
    (\A p \in Procs : ~cfg[p].overwrite) =>
        /\ Cardinality({p \in Procs : published[p]})
             + (IF extDone THEN 1 ELSE 0)
             + (IF dest0.kind = "file" THEN 1 ELSE 0) <= 1
        /\ \A p \in Procs :
             published[p] => (dest.kind = "file" /\ dest.content = written[p].content)
        /\ extDone => (dest.kind = "file" /\ dest.content = ExtContent)
        /\ \A p \in Procs :
             (WroteAndLeft(p) /\ pc[p] \in {"cleanup", "done"} /\ ~published[p])
                => (err[p].type = "FileExistsError" /\ "destination" \in err[p].paths)

\* Both invocations wrote while the destination was absent; 1 published and
\* 2 lost the race.
C7_Witness ==
    /\ dest0.kind = "absent" /\ ~extDone
    /\ \A p \in Procs : ~cfg[p].overwrite /\ WroteAndLeft(p) /\ Ended(p)
    /\ published[1] /\ ~published[2]
    /\ err[2].type = "FileExistsError"
    /\ dest.content = written[1].content
    /\ written[1].content # written[2].content

\* C8: file permissions.  After a publish by a single invocation that has
\* ended, the destination's mode is exactly file_perms; its owner and group
\* are the staged file's unless the invocation ended without an exception
\* and a user (resp. group) was given, and then they are the ones given.
C8_FilePerms ==
    (Ended(1) /\ published[1]) =>
        /\ dest.mode = cfg[1].file_perms
        /\ dest.owner = IF err[1] = NoErr /\ cfg[1].user # None
                        THEN cfg[1].user ELSE written[1].owner
        /\ dest.group = IF err[1] = NoErr /\ cfg[1].group # None
                        THEN cfg[1].group ELSE written[1].group

C8_Witness ==
    /\ Ended(1) /\ published[1] /\ err[1] = NoErr
    /\ cfg[1].file_perms = S_IRUSR /\ dest.mode = S_IRUSR
    /\ cfg[1].user = None /\ cfg[1].group = OwnGroup
    /\ dest.owner = Me /\ dest.group = OwnGroup /\ written[1].group = Me

\* Levels that were missing before the invocation.
Missing == {i \in Levels : anc0[i].kind = "absent"}
\* The deepest ancestor present beforehand is a directory the process may
\* write to and search, and so are the directories above it searchable.
Provisionable ==
    \E k \in Levels :
        /\ \A i \in Levels :
             anc0[i].kind = IF i <= k THEN "dir" ELSE "absent"
        /\ WalkErr(anc0, 0, k) = "none"
        /\ CanWrite(anc0[k])
\* The provisioning loop of p is over.
Provisioned(p) == pc[p] \notin {"idle", "mkdir", "setprops"}

\* C9 as stated: for any dir_perms, after the operation every ancestor that
\* was missing exists and carries dir_perms, and every ancestor that existed
\* is unchanged (stated for invocations that give no user and no group,
\* below a directory the process may write to).
C9_AsStated ==
    (Ended(1) /\ Provisionable /\ cfg[1].user = None /\ cfg[1].group = None)
        => \A i \in Levels :
             IF i \in Missing
             THEN anc[i].kind = "dir" /\ anc[i].mode = cfg[1].dir_perms
             ELSE anc[i] = anc0[i]

\* C9 amended: when the missing ancestors lie below a directory the process
\* may write to and search, dir_perms grants the owner write and search
\* permission, and user and group (when given) name existing accounts, then
\* once provisioning is over every missing ancestor exists and carries
\* dir_perms; and whatever the arguments, every ancestor that existed
\* beforehand keeps its mode and ownership.
C9_Provisioning ==
    /\ \A i \in Levels \ Missing : anc[i] = anc0[i]
    /\ (/\ Provisioned(1) /\ Provisionable
        /\ HasBits(cfg[1].dir_perms, S_IWUSR + S_IXUSR)
        /\ cfg[1].user \in KnownUsers \cup {None}
        /\ cfg[1].group \in KnownGroups \cup {None})
          => \A i \in Missing :
               anc[i].kind = "dir" /\ anc[i].mode = cfg[1].dir_perms

C9_Witness ==
    /\ Ended(1) /\ err[1] = NoErr
    /\ Cardinality(Missing) >= 2
    /\ anc0[1] = Dir(Me, Me, 448) /\ anc[1] = anc0[1]
    /\ \A i \in Missing : anc[i].kind = "dir" /\ anc[i].mode = DefaultDirPerms

\* C10: the only exceptions writer_cm swallows are those of the creation of
\* an ancestor directory; a failure of chmod or chown, on a newly created
\* ancestor as on the destination, always propagates.
C10_OnlyMkdirSwallowed ==
    \A p \in Procs : swallowed[p] \subseteq {"mkdir"}

\* C11: ordering within one invocation.  Ancestor directories change only
\* before the temporary directory exists; the temporary directory is created
\* once the provisioning loop is over and before the caller's block runs;
\* the caller writes and leaves its block only while the temporary directory
\* exists; the destination's entry is replaced only after the block ended
\* normally; its properties are set only after the publish succeeded; and
\* the removal of the temporary directory is the last step, after the
\* destination's properties were set.
C11_Step ==
    /\ (anc' # anc)
         => (temp[1] = NoTemp /\ temp'[1] = NoTemp /\ exit[1] = "none")
    /\ (temp[1] = NoTemp /\ temp'[1] # NoTemp)
         => (idx[1] = MaxDepth /\ exit[1] = "none" /\ staged[1] = Absent
             /\ pc[1] = "mktemp" /\ anc' = anc /\ dest' = dest)
    /\ (staged'[1] # staged[1] /\ staged'[1].kind = "file")
         => (temp[1] # NoTemp /\ exit[1] = "none")
    /\ (exit'[1] # exit[1])
         => (temp[1] # NoTemp /\ ~published[1] /\ dest' = dest)
    /\ (published'[1] # published[1] \/ dest'.kind # dest.kind
          \/ dest'.content # dest.content)
         => (exit[1] = "normal" /\ temp[1] # NoTemp)
    /\ (dest' # dest /\ dest'.kind = dest.kind /\ dest'.content = dest.content)
         => (published[1] /\ temp[1] # NoTemp)
    /\ (temp[1] # NoTemp /\ temp'[1] = NoTemp)
         => /\ pc'[1] = "done" /\ anc' = anc /\ dest' = dest
            /\ (published[1] /\ err[1] = NoErr) => dest.mode = cfg[1].file_perms

C11_Ordering == [][C11_Step]_vars

\* An invocation that created ancestors, published and cleaned up.
C11_Witness ==
    /\ Ended(1) /\ published[1] /\ err[1] = NoErr
    /\ anc # anc0 /\ temp[1] = NoTemp
    /\ dest.content = written[1].content /\ dest.mode = cfg[1].file_perms

\* C12: ancestor creation is advisory.  Whatever makes mkdir of an ancestor
\* fail, the exception is suppressed and the invocation reaches the creation
\* of the temporary directory: no invocation ends with an exception raised in
\* the provisioning loop (stated for invocations that give no user and no
\* group, whose _set_properties makes no account lookup).
C12_AsStated ==
    \A p \in Procs :
        (Ended(p) /\ cfg[p].user = None /\ cfg[p].group = None)
            => "ancestor" \notin err[p].paths

\* A directory as mkdir leaves it, before any _set_properties.
Fresh == Dir(Me, Me, Masked(511, umask))
\* The invocations about to set the properties of level i.
Setting(i) == {p \in Procs : pc[p] = "setprops" /\ idx[p] = i}

\* C13: two invocations sharing missing ancestors.  Under every interleaving
\* an invocation sets the properties of a level only when it created it:
\* the directory is then as mkdir left it and no other invocation is setting
\* its properties; directories present beforehand are never changed; a
\* created level ends up with the dir_perms of an invocation; neither
\* invocation ends before its caller's block ran, and an invocation whose
\* block wrote the staged file ends having published or with the
\* FileExistsError of the rename.
C13_SharedAncestors ==
    /\ \A i \in Levels \ Missing : anc[i] = anc0[i]
    /\ \A i \in Missing :
         /\ Cardinality(Setting(i)) <= 1
         /\ Setting(i) # {} => anc[i] = Fresh
         /\ (Setting(i) = {} /\ anc[i].kind # "absent")
              => /\ anc[i].kind = "dir" /\ anc[i].owner = Me /\ anc[i].group = Me
                 /\ \E p \in Procs : Provisioned(p) \/ idx[p] > i
                 /\ \E p \in Procs : anc[i].mode = cfg[p].dir_perms
    /\ \A p \in Procs :
         /\ Provisioned(p) => \A i \in Levels : anc[i].kind = "dir"
         /\ pc[p] \in {"scope", "publish", "destprops", "cleanup"} => temp[p] # NoTemp
         /\ Ended(p) => exit[p] # "none"
         /\ (Ended(p) /\ WroteAndLeft(p))
              => (published[p] \/ err[p].type = "FileExistsError")

\* Invocation 1 created level 2 and has not yet set its properties;
\* invocation 2 found it present, went on and created level 3.
C13_Witness ==
    /\ {2, 3} \subseteq Missing
    /\ Setting(2) = {1} /\ Setting(3) = {2}
    /\ swallowed[2] = {"mkdir"}

\* C14: each newly created ancestor has dir_perms and, when a user or a
\* group is given, that ownership, by the time the creation of the next
\* deeper ancestor is attempted.
C14_AsStated ==
    pc[1] = "mkdir" =>
        \A i \in Missing :
            (i < idx[1] /\ anc[i].kind = "dir")
                => /\ anc[i].mode = cfg[1].dir_perms
                   /\ cfg[1].user # None => anc[i].owner = cfg[1].user
                   /\ cfg[1].group # None => anc[i].group = cfg[1].group

\* C15: temporary directories are exclusive.  At every point of two
\* interleaved invocations for the same destination, the temporary
\* directories that exist lie in destination.parent under different names,
\* a staged file lies in the temporary directory of its invocation and
\* holds only what the caller of that invocation wrote.
C15_ExclusiveStaging ==
    /\ \A p, q \in Procs :
         (p # q /\ temp[p] # NoTemp /\ temp[q] # NoTemp) => temp[p] # temp[q]
    /\ \A p \in Procs :
         /\ temp[p] # NoTemp => (temp[p] \in TempNames /\ Parent.kind = "dir")
         /\ staged[p].kind # "absent"
              => /\ temp[p] # NoTemp
                 /\ staged[p].kind = "file" /\ staged[p].owner = Me
                 /\ \A k \in 1 .. Len(staged[p].content) : staged[p].content[k] = p

C15_Witness ==
    /\ \A p \in Procs : pc[p] = "scope" /\ Len(staged[p].content) = MaxLen
    /\ temp[1] # temp[2]
    /\ staged[1].content # staged[2].content

\* C16: no rollback of provisioning.  No step ever removes an ancestor
\* directory, and when an invocation has ended with an exception, every
\* ancestor it created is a directory carrying its dir_perms.
C16_Created == {i \in Missing : anc[i].kind # "absent"}

C16_NoRollback ==
    /\ [][\A i \in Levels : anc[i].kind = "dir" => anc'[i].kind = "dir"]_vars
    /\ []((Ended(1) /\ err[1] # NoErr)
            => \A i \in C16_Created :
                 anc[i].kind = "dir" /\ anc[i].mode = cfg[1].dir_perms)

\* The caller's block raised after two ancestors had been created.
C16_Witness ==
    /\ Ended(1) /\ exit[1] \in CallerErrors /\ err[1].type = exit[1]
    /\ Cardinality(C16_Created) >= 2
    /\ \A i \in C16_Created : anc[i].mode = cfg[1].dir_perms

\* C17: when the creation of the temporary directory fails, the exception
\* leaves writer_cm: the caller's block never runs, nothing is published and
\* the destination is the entry it was; and the caller's block only ever
\* runs with the temporary directory in place and no exception pending.
C17_StagingFailure ==
    /\ (pc[1] # "mktemp" /\ "parent" \in err[1].paths)
         => /\ Ended(1)
            /\ exit[1] = "none" /\ written[1] = Absent /\ staged[1] = Absent
            /\ temp[1] = NoTemp
            /\ ~published[1] /\ dest = dest0
    /\ pc[1] = "scope" => (temp[1] # NoTemp /\ err[1] = NoErr)

\* The parent could not be created below a directory the process cannot
\* write to, so mkdtemp found no parent.
C17_Witness ==
    /\ Ended(1) /\ err[1] = Err("FileNotFoundError", {"parent"})
    /\ swallowed[1] = {"mkdir"}
    /\ exit[1] = "none" /\ dest = dest0

\* C18: a block that ends normally without creating the staged file.  The
\* rename fails with FileNotFoundError in both overwrite modes, the
\* destination is the entry it was (neither removed, replaced nor created,
\* its mode untouched) and the temporary directory is removed.
C18_NothingStaged ==
    (exit[1] = "normal" /\ written[1].kind = "absent" /\ pc[1] # "publish")
        => /\ err[1].type = "FileNotFoundError"
           /\ pc[1] \in {"cleanup", "done"}
           /\ ~published[1] /\ dest = dest0
           /\ Ended(1) => (temp[1] = NoTemp /\ staged[1] = Absent)

C18_Witness ==
    /\ Ended(1) /\ exit[1] = "normal" /\ written[1].kind = "absent"
    /\ cfg[1].overwrite /\ dest0.kind = "file" /\ dest = dest0
    /\ err[1].type = "FileNotFoundError" /\ temp[1] = NoTemp

\* An invocation that published and then ended with an exception.
PropsFailed(p) == Ended(p) /\ published[p] /\ err[p] # NoErr

\* C19 as stated: when setting the destination's properties fails after the
\* publish, the exception propagates, the temporary directory is removed and
\* the destination keeps the published content with the permission bits the
\* staged file had.
C19_AsStated ==
    PropsFailed(1)
        => /\ "destination" \in err[1].paths
           /\ temp[1] = NoTemp /\ staged[1] = Absent
           /\ dest.kind = "file" /\ dest.content = written[1].content
           /\ dest.mode = written[1].mode

\* C19 amended: ... the destination keeps the published content; the call
\* that fails is chown, after chmod has applied file_perms, so the
\* destination carries file_perms and the staged file's owner and group.
C19_NoRollback ==
    PropsFailed(1)
        => /\ "destination" \in err[1].paths
           /\ err[1].type \in {"PermissionError", "LookupError"}
           /\ temp[1] = NoTemp /\ staged[1] = Absent
           /\ dest.kind = "file" /\ dest.content = written[1].content
           /\ dest.mode = cfg[1].file_perms
           /\ dest.owner = written[1].owner /\ dest.group = written[1].group

C19_Witness ==
    /\ PropsFailed(1) /\ err[1].type = "PermissionError"
    /\ dest0.kind = "file" /\ cfg[1].overwrite
    /\ Len(written[1].content) >= 1 /\ dest.content = written[1].content
    /\ dest.mode = cfg[1].file_perms /\ dest.mode # written[1].mode

\* Two overwriting invocations that both published and ended without an
\* exception, with contents that tell them apart.
BothOverwrote ==
    /\ \A p \in Procs :
         Ended(p) /\ cfg[p].overwrite /\ published[p] /\ err[p] = NoErr
    /\ written[1].content # written[2].content

\* C20 as stated: the destination's final permission bits are the file_perms
\* of the invocation whose content is at the destination.
C20_AsStated ==
    BothOverwrote
        => \A p \in Procs :
             dest.content = written[p].content => dest.mode = cfg[p].file_perms

====
